---------------------------- MODULE Spec2Model ----------------------------
(***************************************************************************)
(* Model of bc_hospitals_scraper.py: the listing parser, the coordinate    *)
(* extractor, the bed-count extractor, the concurrent enrichment stage     *)
(* (ThreadPoolExecutor.map over the listing records) and main's            *)
(* deduplicate / sort / write tail.                                        *)
(*                                                                         *)
(* Representation.                                                         *)
(*   - A character is its Unicode code point (ord(c)); a Python str is the *)
(*     sequence of its code points, so "A b" is <<65, 32, 98>>.            *)
(*   - Optional[T] is a sequence of length <= 1: None is << >>, a value v  *)
(*     is <<v>>.                                                           *)
(*   - A Python float is a record [kind, neg, digits, exp].  kind "finite" *)
(*     is the decimal (-1)^neg * digits * 10^exp with digits a sequence of *)
(*     decimal digits without leading or trailing zero (0.0 and -0.0 have  *)
(*     no digit, exp 0, and keep their sign); kind "inf" is +-infinity and *)
(*     kind "nan" a NaN.  A finite record names the double nearest to its  *)
(*     decimal, as float() rounds a literal: the decimal is kept, so two   *)
(*     literals of the same double give the same record when they have at  *)
(*     most 15 significant digits and lie in the normal range.  A literal  *)
(*     goes to "inf" or to zero exactly when float() sends it there.       *)
(*   - The character tables are those of CPython 3.11 (Unicode 14).        *)
(***************************************************************************)
EXTENDS Integers, Sequences, FiniteSets

None == << >>
Some(v) == <<v>>
Val(o) == o[1]

(***************************************************************************)
(* Characters and strings                                                  *)
(***************************************************************************)
\* str.isspace() and the regular expression class \s: the same characters.
WhitespaceChars ==
    {9, 10, 11, 12, 13, 28, 29, 30, 31, 32, 133, 160, 5760, 8232, 8233, 8239, 8287, 12288}
        \cup (8192..8202)
IsSpace(c) == c \in WhitespaceChars

\* The code point of digit zero of every decimal-digit block (category Nd);
\* the ten digits of a block are consecutive.  The regular expression class
\* \d matches them all and int() and float() read them all.
DigitZeros ==
    {48, 1632, 1776, 1984, 2406, 2534, 2662, 2790, 2918, 3046, 3174, 3302, 3430, 3558,
     3664, 3792, 3872, 4160, 4240, 6112, 6160, 6470, 6608, 6784, 6800, 6992, 7088, 7232,
     7248, 42528, 43216, 43264, 43472, 43504, 43600, 44016, 65296, 66720, 68912, 69734,
     69872, 69942, 70096, 70384, 70736, 70864, 71248, 71360, 71472, 71904, 72016, 72784,
     73040, 73120, 92768, 92864, 93008, 120782, 120792, 120802, 120812, 120822, 123200,
     123632, 125264, 130032}
IsDigit(c) == \E z \in DigitZeros : z <= c /\ c <= z + 9
DigitVal(c) == c - (CHOOSE z \in DigitZeros : z <= c /\ c <= z + 9)

IsAsciiDigit(c) == c \in 48..57
IsAsciiAlpha(c) == c \in 65..90 \/ c \in 97..122
IsHexDigit(c) == c \in 48..57 \/ c \in 65..70 \/ c \in 97..102

\* str < str: lexicographic by code point, a proper prefix is smaller.
StrLess(a, b) ==
    LET D == {i \in 1..Len(a) : i > Len(b) \/ a[i] # b[i]}
        d == CHOOSE i \in D : \A j \in D : i <= j
    IN IF D = {} THEN Len(a) < Len(b) ELSE d <= Len(b) /\ a[d] < b[d]

\* Lower case of an ASCII letter; the other ASCII characters are unchanged.
LowerAscii(c) == IF c \in 65..90 THEN c + 32 ELSE c
StrLowerAscii(s) == [i \in DOMAIN s |-> LowerAscii(s[i])]

\* s.lower().startswith(p) for a prefix p of lower-case ASCII letters among
\* b, d, e, s: str.lower() gives each of these letters for the letter itself
\* and its ASCII capital only, and gives no other character a lower case
\* that contains one of them, so only the first Len(p) characters of s count.
LowerStartsWith(s, p) ==
    Len(s) >= Len(p) /\ \A i \in DOMAIN p : LowerAscii(s[i]) = p[i]

Take(s, n) == SubSeq(s, 1, n)
Drop(s, n) == SubSeq(s, n + 1, Len(s))
Has(s, c) == \E i \in DOMAIN s : s[i] = c

\* s.find(c, from): the position (from 1) of the first c at or after from,
\* 0 when there is none; s.rfind(c) likewise for the last c.
FindFrom(s, c, from) ==
    LET I == {i \in from..Len(s) : s[i] = c}
    IN IF I = {} THEN 0 ELSE CHOOSE i \in I : \A j \in I : i <= j
Find(s, c) == FindFrom(s, c, 1)
RFind(s, c) ==
    LET I == {i \in DOMAIN s : s[i] = c}
    IN IF I = {} THEN 0 ELSE CHOOSE i \in I : \A j \in I : j <= i

\* s.split(c) and c.join(parts)
RECURSIVE Split(_, _)
Split(s, c) ==
    IF Find(s, c) = 0 THEN <<s>>
    ELSE <<Take(s, Find(s, c) - 1)>> \o Split(Drop(s, Find(s, c)), c)
RECURSIVE Join(_, _)
Join(parts, c) ==
    IF parts = << >> THEN << >>
    ELSE IF Len(parts) = 1 THEN parts[1]
    ELSE parts[1] \o <<c>> \o Join(Tail(parts), c)

\* s.lstrip(chars), s.rstrip(chars) for a set of characters.
LStripIn(s, W) ==
    LET K == {i \in 1..Len(s) : s[i] \notin W}
    IN IF K = {} THEN << >> ELSE Drop(s, (CHOOSE i \in K : \A j \in K : i <= j) - 1)
RStripIn(s, W) ==
    LET K == {i \in 1..Len(s) : s[i] \notin W}
    IN IF K = {} THEN << >> ELSE Take(s, CHOOSE i \in K : \A j \in K : j <= i)

\* str.strip(): Unicode whitespace goes from both ends.
Strip(s) == RStripIn(LStripIn(s, WhitespaceChars), WhitespaceChars)

\* re.sub(r"\s+", " ", s): every run of whitespace becomes one space, which
\* stands where the run began.
CollapseSpaces(s) ==
    LET kept == SelectSeq([i \in 1..Len(s) |-> i],
                          LAMBDA i : ~IsSpace(s[i]) \/ i = 1 \/ ~IsSpace(s[i - 1]))
    IN [k \in 1..Len(kept) |-> IF IsSpace(s[kept[k]]) THEN 32 ELSE s[kept[k]]]

_clean_text(s) == Strip(CollapseSpaces(s))

\* str.replace(",", "")
RemoveCommas(s) == SelectSeq(s, LAMBDA c : c # 44)

(***************************************************************************)
(* float(text) and int(text)                                               *)
(***************************************************************************)
Finite(n, d, e) == [kind |-> "finite", neg |-> n, digits |-> d, exp |-> e]
Infinity(n) == [kind |-> "inf", neg |-> n, digits |-> << >>, exp |-> 0]
NaN == [kind |-> "nan", neg |-> FALSE, digits |-> << >>, exp |-> 0]
Zero(n) == Finite(n, << >>, 0)

\* The value of a run of decimal digits (int() of it).
RECURSIVE DigitsValue(_)
DigitsValue(s) ==
    IF s = << >> THEN 0 ELSE DigitsValue(Take(s, Len(s) - 1)) * 10 + DigitVal(s[Len(s)])

\* The longest prefix of ASCII digits.
AsciiDigitRun(s) ==
    LET N == {i \in 1..Len(s) : ~IsAsciiDigit(s[i])}
    IN IF N = {} THEN s ELSE Take(s, (CHOOSE i \in N : \A j \in N : i <= j) - 1)

\* float() first rewrites the text to ASCII: a non-ASCII whitespace becomes
\* a space, a non-ASCII decimal digit its ASCII digit, and at any other
\* non-ASCII character the text ends in "?", which no literal admits.
ToAsciiNumber(s) ==
    LET N == {i \in 1..Len(s) : s[i] >= 127 /\ ~IsSpace(s[i]) /\ ~IsDigit(s[i])}
        n == IF N = {} THEN Len(s) ELSE CHOOSE i \in N : \A j \in N : i <= j
    IN [i \in 1..n |-> IF s[i] < 127 THEN s[i]
                       ELSE IF IsSpace(s[i]) THEN 32
                       ELSE IF IsDigit(s[i]) THEN 48 + DigitVal(s[i])
                       ELSE 63]

\* The whitespace float() strips from both ends of the rewritten text: tab,
\* LF, VT, FF, CR and space, but not the separators FS, GS, RS, US.
FloatSpaceChars == {9, 10, 11, 12, 13, 32}

\* An underscore of a numeric literal stands between two digits.
UnderscoresOk(s) ==
    \A i \in 1..Len(s) :
        s[i] = 95 => /\ 1 < i /\ i < Len(s)
                     /\ IsAsciiDigit(s[i - 1]) /\ IsAsciiDigit(s[i + 1])

\* The double nearest to digits * 10^e, named by that decimal: the digits
\* without leading and trailing zeros.  Round-half-even gives infinity
\* from 2^1024 - 2^970 on (overflowFrom, 309 digits before the point),
\* zero up to 2^-1075 = 5^1075 * 10^-1075 (underflowTo, 752 digits of which
\* the first stands 323 places behind the point), and a double that is not
\* zero for every decimal between the two.
DoubleOf(neg, ds, e) ==
    LET body == LStripIn(ds, {0})
        core == RStripIn(body, {0})
        ee == e + (Len(body) - Len(core))
        mag == Len(core) + ee
        overflowFrom ==
            <<1, 7, 9, 7, 6, 9, 3, 1, 3, 4, 8, 6, 2, 3, 1, 5, 8, 0, 7, 9, 3, 7, 2, 8, 9, 7, 1,
                    4, 0, 5, 3, 0, 3, 4, 1, 5, 0, 7, 9, 9, 3, 4, 1, 3, 2, 7, 1, 0, 0, 3, 7, 8,
                    2, 6, 9, 3, 6, 1, 7, 3, 7, 7, 8, 9, 8, 0, 4, 4, 4, 9, 6, 8, 2, 9, 2, 7, 6,
                    4, 7, 5, 0, 9, 4, 6, 6, 4, 9, 0, 1, 7, 9, 7, 7, 5, 8, 7, 2, 0, 7, 0, 9, 6,
                    3, 3, 0, 2, 8, 6, 4, 1, 6, 6, 9, 2, 8, 8, 7, 9, 1, 0, 9, 4, 6, 5, 5, 5, 5,
                    4, 7, 8, 5, 1, 9, 4, 0, 4, 0, 2, 6, 3, 0, 6, 5, 7, 4, 8, 8, 6, 7, 1, 5, 0,
                    5, 8, 2, 0, 6, 8, 1, 9, 0, 8, 9, 0, 2, 0, 0, 0, 7, 0, 8, 3, 8, 3, 6, 7, 6,
                    2, 7, 3, 8, 5, 4, 8, 4, 5, 8, 1, 7, 7, 1, 1, 5, 3, 1, 7, 6, 4, 4, 7, 5, 7,
                    3, 0, 2, 7, 0, 0, 6, 9, 8, 5, 5, 5, 7, 1, 3, 6, 6, 9, 5, 9, 6, 2, 2, 8, 4,
                    2, 9, 1, 4, 8, 1, 9, 8, 6, 0, 8, 3, 4, 9, 3, 6, 4, 7, 5, 2, 9, 2, 7, 1, 9,
                    0, 7, 4, 1, 6, 8, 4, 4, 4, 3, 6, 5, 5, 1, 0, 7, 0, 4, 3, 4, 2, 7, 1, 1, 5,
                    5, 9, 6, 9, 9, 5, 0, 8, 0, 9, 3, 0, 4, 2, 8, 8, 0, 1, 7, 7, 9, 0, 4, 1, 7,
                    4, 4, 9, 7, 7, 9, 2>>
        underflowTo ==
            <<2, 4, 7, 0, 3, 2, 8, 2, 2, 9, 2, 0, 6, 2, 3, 2, 7, 2, 0, 8, 8, 2, 8, 4, 3, 9, 6,
                    4, 3, 4, 1, 1, 0, 6, 8, 6, 1, 8, 2, 5, 2, 9, 9, 0, 1, 3, 0, 7, 1, 6, 2, 3,
                    8, 2, 2, 1, 2, 7, 9, 2, 8, 4, 1, 2, 5, 0, 3, 3, 7, 7, 5, 3, 6, 3, 5, 1, 0,
                    4, 3, 7, 5, 9, 3, 2, 6, 4, 9, 9, 1, 8, 1, 8, 0, 8, 1, 7, 9, 9, 6, 1, 8, 9,
                    8, 9, 8, 2, 8, 2, 3, 4, 7, 7, 2, 2, 8, 5, 8, 8, 6, 5, 4, 6, 3, 3, 2, 8, 3,
                    5, 5, 1, 7, 7, 9, 6, 9, 8, 9, 8, 1, 9, 9, 3, 8, 7, 3, 9, 8, 0, 0, 5, 3, 9,
                    0, 9, 3, 9, 0, 6, 3, 1, 5, 0, 3, 5, 6, 5, 9, 5, 1, 5, 5, 7, 0, 2, 2, 6, 3,
                    9, 2, 2, 9, 0, 8, 5, 8, 3, 9, 2, 4, 4, 9, 1, 0, 5, 1, 8, 4, 4, 3, 5, 9, 3,
                    1, 8, 0, 2, 8, 4, 9, 9, 3, 6, 5, 3, 6, 1, 5, 2, 5, 0, 0, 3, 1, 9, 3, 7, 0,
                    4, 5, 7, 6, 7, 8, 2, 4, 9, 2, 1, 9, 3, 6, 5, 6, 2, 3, 6, 6, 9, 8, 6, 3, 6,
                    5, 8, 4, 8, 0, 7, 5, 7, 0, 0, 1, 5, 8, 5, 7, 6, 9, 2, 6, 9, 9, 0, 3, 7, 0,
                    6, 3, 1, 1, 9, 2, 8, 2, 7, 9, 5, 5, 8, 5, 5, 1, 3, 3, 2, 9, 2, 7, 8, 3, 4,
                    3, 3, 8, 4, 0, 9, 3, 5, 1, 9, 7, 8, 0, 1, 5, 5, 3, 1, 2, 4, 6, 5, 9, 7, 2,
                    6, 3, 5, 7, 9, 5, 7, 4, 6, 2, 2, 7, 6, 6, 4, 6, 5, 2, 7, 2, 8, 2, 7, 2, 2,
                    0, 0, 5, 6, 3, 7, 4, 0, 0, 6, 4, 8, 5, 4, 9, 9, 9, 7, 7, 0, 9, 6, 5, 9, 9,
                    4, 7, 0, 4, 5, 4, 0, 2, 0, 8, 2, 8, 1, 6, 6, 2, 2, 6, 2, 3, 7, 8, 5, 7, 3,
                    9, 3, 4, 5, 0, 7, 3, 6, 3, 3, 9, 0, 0, 7, 9, 6, 7, 7, 6, 1, 9, 3, 0, 5, 7,
                    7, 5, 0, 6, 7, 4, 0, 1, 7, 6, 3, 2, 4, 6, 7, 3, 6, 0, 0, 9, 6, 8, 9, 5, 1,
                    3, 4, 0, 5, 3, 5, 5, 3, 7, 4, 5, 8, 5, 1, 6, 6, 6, 1, 1, 3, 4, 2, 2, 3, 7,
                    6, 6, 6, 7, 8, 6, 0, 4, 1, 6, 2, 1, 5, 9, 6, 8, 0, 4, 6, 1, 9, 1, 4, 4, 6,
                    7, 2, 9, 1, 8, 4, 0, 3, 0, 0, 5, 3, 0, 0, 5, 7, 5, 3, 0, 8, 4, 9, 0, 4, 8,
                    7, 6, 5, 3, 9, 1, 7, 1, 1, 3, 8, 6, 5, 9, 1, 6, 4, 6, 2, 3, 9, 5, 2, 4, 9,
                    1, 2, 6, 2, 3, 6, 5, 3, 8, 8, 1, 8, 7, 9, 6, 3, 6, 2, 3, 9, 3, 7, 3, 2, 8,
                    0, 4, 2, 3, 8, 9, 1, 0, 1, 8, 6, 7, 2, 3, 4, 8, 4, 9, 7, 6, 6, 8, 2, 3, 5,
                    0, 8, 9, 8, 6, 3, 3, 8, 8, 5, 8, 7, 9, 2, 5, 6, 2, 8, 3, 0, 2, 7, 5, 5, 9,
                    9, 5, 6, 5, 7, 5, 2, 4, 4, 5, 5, 5, 0, 7, 2, 5, 5, 1, 8, 9, 3, 1, 3, 6, 9,
                    0, 8, 3, 6, 2, 5, 4, 7, 7, 9, 1, 8, 6, 9, 4, 8, 6, 6, 7, 9, 9, 4, 9, 6, 8,
                    3, 2, 4, 0, 4, 9, 7, 0, 5, 8, 2, 1, 0, 2, 8, 5, 1, 3, 1, 8, 5, 4, 5, 1, 3,
                    9, 6, 2, 1, 3, 8, 3, 7, 7, 2, 2, 8, 2, 6, 1, 4, 5, 4, 3, 7, 6, 9, 3, 4, 1,
                    2, 5, 3, 2, 0, 9, 8, 5, 9, 1, 3, 2, 7, 6, 6, 7, 2, 3, 6, 3, 2, 8, 1, 2, 5>>
    IN IF core = << >> THEN Zero(neg)
       ELSE IF mag > 309 \/ (mag = 309 /\ ~StrLess(core, overflowFrom)) THEN Infinity(neg)
       ELSE IF mag < -323 \/ (mag = -323 /\ ~StrLess(underflowTo, core)) THEN Zero(neg)
       ELSE Finite(neg, core, ee)

\* The end of a literal, after the digits of its mantissa (nfrac of them
\* behind the "."): nothing, or "e" or "E", an optional sign and at least
\* one digit.  None stands for ValueError.  An exponent of more than six
\* digits is beyond the double range whatever the mantissa, and is read as
\* 1000000.
FloatExponent(neg, mantissa, nfrac, r) ==
    LET signed == Len(r) >= 2 /\ r[2] \in {43, 45}
        ed == Drop(r, IF signed THEN 2 ELSE 1)
        sig == LStripIn(ed, {48})
        ev == IF Len(sig) > 6 THEN 1000000 ELSE DigitsValue(sig)
    IN IF mantissa = << >> THEN None
       ELSE IF r = << >> THEN Some(DoubleOf(neg, mantissa, 0 - nfrac))
       ELSE IF r[1] \notin {69, 101} THEN None
       ELSE IF ed = << >> \/ AsciiDigitRun(ed) # ed THEN None
       ELSE Some(DoubleOf(neg, mantissa, (IF signed /\ r[2] = 45 THEN 0 - ev ELSE ev) - nfrac))

\* The literal after its integer digits ip: an optional "." and fraction
\* digits; the mantissa needs one digit at least, on either side.
FloatFraction(neg, ip, r) ==
    LET dot == r # << >> /\ r[1] = 46
        fp == IF dot THEN AsciiDigitRun(Tail(r)) ELSE << >>
    IN FloatExponent(neg, [i \in 1..(Len(ip) + Len(fp)) |-> (ip \o fp)[i] - 48], Len(fp),
                     IF dot THEN Drop(r, 1 + Len(fp)) ELSE r)

\* The unsigned part of a literal: "inf", "infinity" or "nan" in any case,
\* or a decimal literal.
UnsignedFloat(t, neg) ==
    IF StrLowerAscii(t) \in {<<105, 110, 102>>,
                             <<105, 110, 102, 105, 110, 105, 116, 121>>}
    THEN Some(Infinity(neg))
    ELSE IF StrLowerAscii(t) = <<110, 97, 110>> THEN Some(NaN)
    ELSE FloatFraction(neg, AsciiDigitRun(t), Drop(t, Len(AsciiDigitRun(t))))

\* float(text): the text rewritten to ASCII and stripped, the underscores
\* checked and removed, an optional sign.  None stands for ValueError.
ParseFloat(text) ==
    LET s == RStripIn(LStripIn(ToAsciiNumber(text), FloatSpaceChars), FloatSpaceChars)
        t == SelectSeq(s, LAMBDA c : c # 95)
        signed == t # << >> /\ Head(t) \in {43, 45}
    IN IF ~UnderscoresOk(s) THEN None
       ELSE UnsignedFloat(IF signed THEN Tail(t) ELSE t, signed /\ Head(t) = 45)

\* Python truthiness of an Optional[float] and of an Optional[str]: None and
\* 0.0 and -0.0 are falsy, every other float (infinities and NaN included)
\* is truthy; None and "" are falsy.
TruthyFloat(o) == o # None /\ ~(Val(o).kind = "finite" /\ Val(o).digits = << >>)
TruthyStr(o) == o # None /\ Val(o) # << >>
\* Python's "a or b" on Optional[float].
PyOr(a, b) == IF TruthyFloat(a) THEN a ELSE b

(***************************************************************************)
(* urllib.parse.urljoin, which line 96 applies to every link of a listing  *)
(* row.  A result is [error, url]; error stands for the ValueError that    *)
(* urlsplit raises on a malformed bracketed host or on a host that hides a *)
(* delimiter under NFKC normalization.                                     *)
(***************************************************************************)
\* The scheme lists of urllib.parse; << >> is the empty scheme.
uses_relative ==
    {<< >>,
     <<102, 116, 112>>,                                  \* ftp
     <<104, 116, 116, 112>>,                             \* http
     <<103, 111, 112, 104, 101, 114>>,                   \* gopher
     <<110, 110, 116, 112>>,                             \* nntp
     <<105, 109, 97, 112>>,                              \* imap
     <<119, 97, 105, 115>>,                              \* wais
     <<102, 105, 108, 101>>,                             \* file
     <<104, 116, 116, 112, 115>>,                        \* https
     <<115, 104, 116, 116, 112>>,                        \* shttp
     <<109, 109, 115>>,                                  \* mms
     <<112, 114, 111, 115, 112, 101, 114, 111>>,         \* prospero
     <<114, 116, 115, 112>>,                             \* rtsp
     <<114, 116, 115, 112, 115>>,                        \* rtsps
     <<114, 116, 115, 112, 117>>,                        \* rtspu
     <<115, 102, 116, 112>>,                             \* sftp
     <<115, 118, 110>>,                                  \* svn
     <<115, 118, 110, 43, 115, 115, 104>>,               \* svn+ssh
     <<119, 115>>,                                       \* ws
     <<119, 115, 115>>}                                  \* wss
uses_netloc ==
    {<< >>,
     <<102, 116, 112>>,                                  \* ftp
     <<104, 116, 116, 112>>,                             \* http
     <<103, 111, 112, 104, 101, 114>>,                   \* gopher
     <<110, 110, 116, 112>>,                             \* nntp
     <<116, 101, 108, 110, 101, 116>>,                   \* telnet
     <<105, 109, 97, 112>>,                              \* imap
     <<119, 97, 105, 115>>,                              \* wais
     <<102, 105, 108, 101>>,                             \* file
     <<109, 109, 115>>,                                  \* mms
     <<104, 116, 116, 112, 115>>,                        \* https
     <<115, 104, 116, 116, 112>>,                        \* shttp
     <<115, 110, 101, 119, 115>>,                        \* snews
     <<112, 114, 111, 115, 112, 101, 114, 111>>,         \* prospero
     <<114, 116, 115, 112>>,                             \* rtsp
     <<114, 116, 115, 112, 115>>,                        \* rtsps
     <<114, 116, 115, 112, 117>>,                        \* rtspu
     <<114, 115, 121, 110, 99>>,                         \* rsync
     <<115, 118, 110>>,                                  \* svn
     <<115, 118, 110, 43, 115, 115, 104>>,               \* svn+ssh
     <<115, 102, 116, 112>>,                             \* sftp
     <<110, 102, 115>>,                                  \* nfs
     <<103, 105, 116>>,                                  \* git
     <<103, 105, 116, 43, 115, 115, 104>>,               \* git+ssh
     <<119, 115>>,                                       \* ws
     <<119, 115, 115>>}                                  \* wss
uses_params ==
    {<< >>,
     <<102, 116, 112>>,                                  \* ftp
     <<104, 100, 108>>,                                  \* hdl
     <<112, 114, 111, 115, 112, 101, 114, 111>>,         \* prospero
     <<104, 116, 116, 112>>,                             \* http
     <<105, 109, 97, 112>>,                              \* imap
     <<104, 116, 116, 112, 115>>,                        \* https
     <<115, 104, 116, 116, 112>>,                        \* shttp
     <<114, 116, 115, 112>>,                             \* rtsp
     <<114, 116, 115, 112, 115>>,                        \* rtsps
     <<114, 116, 115, 112, 117>>,                        \* rtspu
     <<115, 105, 112>>,                                  \* sip
     <<115, 105, 112, 115>>,                             \* sips
     <<109, 109, 115>>,                                  \* mms
     <<115, 102, 116, 112>>,                             \* sftp
     <<116, 101, 108>>}                                  \* tel

\* scheme_chars: letters, digits, "+", "-", ".".
IsSchemeChar(c) == IsAsciiAlpha(c) \/ IsAsciiDigit(c) \/ c \in {43, 45, 46}

\* The characters whose NFKC form contains "/", "?", "#", "@" or ":".
NfkcDelimiterChars ==
    {8263, 8264, 8265, 8448, 8449, 8453, 8454, 10868, 65043, 65046, 65109, 65110, 65119,
     65131, 65283, 65295, 65306, 65311, 65312}

\* ipaddress.IPv4Address(s) succeeds: four decimal octets of at most three
\* ASCII digits, no leading zero, none above 255.
ValidIPv4(s) ==
    LET Octet(o) ==
            /\ o # << >> /\ Len(o) <= 3
            /\ \A i \in DOMAIN o : IsAsciiDigit(o[i])
            /\ (o = <<48>> \/ o[1] # 48)
            /\ DigitsValue(o) <= 255
        octets == Split(s, 46)
    IN s # << >> /\ Len(octets) = 4 /\ \A i \in DOMAIN octets : Octet(octets[i])

\* The ":"-separated parts of an IPv6 address, a dotted-quad tail already
\* replaced by two groups: at most nine, at most one "::", groups of one
\* to four hexadecimal digits, eight groups unless "::" stands for some.
ValidGroups(parts) ==
    LET n == Len(parts)
        Hextet(h) == Len(h) \in 1..4 /\ \A i \in DOMAIN h : IsHexDigit(h[i])
        skips == {i \in 2..(n - 1) : parts[i] = << >>}
        k == CHOOSE i \in skips : TRUE
        hi == IF parts[1] = << >> THEN k - 2 ELSE k - 1
        lo == IF parts[n] = << >> THEN n - k - 1 ELSE n - k
    IN /\ n <= 9
       /\ Cardinality(skips) <= 1
       /\ IF skips = {}
          THEN n = 8 /\ \A i \in 1..n : Hextet(parts[i])
          ELSE /\ parts[1] = << >> => hi = 0
               /\ parts[n] = << >> => lo = 0
               /\ hi + lo <= 7
               /\ \A i \in 1..hi : Hextet(parts[i])
               /\ \A i \in (n - lo + 1)..n : Hextet(parts[i])

\* ipaddress.IPv6Address(a) succeeds: an optional "%scope" that is not
\* empty, then at least three ":"-separated parts, the last of which may be
\* an IPv4 address standing for two groups.
ValidIPv6(a) ==
    LET pct == Find(a, 37)
        scope == Drop(a, pct)
        raw == Split(IF pct > 0 THEN Take(a, pct - 1) ELSE a, 58)
        last == raw[Len(raw)]
    IN /\ ~Has(a, 47)
       /\ pct > 0 => (scope # << >> /\ ~Has(scope, 37))
       /\ pct # 1 /\ a # << >>
       /\ Len(raw) >= 3
       /\ IF Has(last, 46)
          THEN ValidIPv4(last) /\ ValidGroups(Take(raw, Len(raw) - 1) \o <<<<48>>, <<48>>>>)
          ELSE ValidGroups(raw)

\* _check_bracketed_host accepts the text between the first "[" and the
\* next "]": an IPvFuture address "v<hex>.<more>" or an IPv6 address.
BracketedHostOk(netloc) ==
    LET rest == Drop(netloc, Find(netloc, 91))
        host == IF Find(rest, 93) > 0 THEN Take(rest, Find(rest, 93) - 1) ELSE rest
        other == {i \in 2..Len(host) : ~IsHexDigit(host[i])}
        hex == IF other = {} THEN Len(host) - 1
               ELSE (CHOOSE i \in other : \A j \in other : i <= j) - 2
    IN IF host # << >> /\ Head(host) = 118
       THEN /\ hex >= 1
            /\ Len(host) > hex + 2
            /\ host[hex + 2] = 46
            /\ ~Has(Drop(host, hex + 2), 10)
       ELSE ValidIPv6(host)

\* urlsplit raises ValueError on this host.
NetlocRaises(netloc) ==
    \/ Has(netloc, 91) # Has(netloc, 93)
    \/ Has(netloc, 91) /\ ~BracketedHostOk(netloc)
    \/ \E i \in DOMAIN netloc : netloc[i] \in NfkcDelimiterChars

\* The end of urlsplit: "#fragment" is cut off first, then "?query", and
\* the host is checked.
SplitTail(scheme, netloc, rest) ==
    LET h == Find(rest, 35)
        q == Find(IF h > 0 THEN Take(rest, h - 1) ELSE rest, 63)
    IN [error    |-> NetlocRaises(netloc),
        scheme   |-> scheme,
        netloc   |-> netloc,
        path     |-> IF q > 0 THEN Take(rest, q - 1)
                     ELSE IF h > 0 THEN Take(rest, h - 1) ELSE rest,
        query    |-> IF q > 0 THEN SubSeq(rest, q + 1, IF h > 0 THEN h - 1 ELSE Len(rest))
                     ELSE << >>,
        fragment |-> IF h > 0 THEN Drop(rest, h) ELSE << >>]

\* _splitnetloc: "//" opens the host, which ends at the first "/", "?" or
\* "#".
SplitNetloc(scheme, url) ==
    LET ends == {FindFrom(url, c, 3) : c \in {47, 63, 35}} \ {0}
        d == IF ends = {} THEN Len(url) + 1 ELSE CHOOSE e \in ends : \A f \in ends : e <= f
    IN IF Len(url) >= 2 /\ url[1] = 47 /\ url[2] = 47
       THEN SplitTail(scheme, SubSeq(url, 3, d - 1), Drop(url, d - 1))
       ELSE SplitTail(scheme, << >>, url)

\* A scheme is a letter followed by scheme characters up to the first ":";
\* it is put in lower case.
SplitScheme(url, dflt) ==
    LET i == Find(url, 58)
    IN IF i > 1 /\ IsAsciiAlpha(url[1]) /\ \A j \in 1..(i - 1) : IsSchemeChar(url[j])
       THEN SplitNetloc(StrLowerAscii(Take(url, i - 1)), Drop(url, i))
       ELSE SplitNetloc(dflt, url)

\* urlsplit(url, scheme): leading C0 controls and spaces go from the URL
\* (from both ends of the default scheme), then every tab, CR and LF.
urlsplit(url, scheme) ==
    SplitScheme(SelectSeq(LStripIn(url, 0..32), LAMBDA c : c \notin {9, 10, 13}),
                SelectSeq(RStripIn(LStripIn(scheme, 0..32), 0..32),
                          LAMBDA c : c \notin {9, 10, 13}))

\* _splitparams on a split URL: the ";params" of the last path segment, for
\* the schemes that have them.
SplitParams(r) ==
    LET slash == RFind(r.path, 47)
        semi == FindFrom(r.path, 59, IF slash > 0 THEN slash ELSE 1)
        cut == r.scheme \in uses_params /\ semi > 0
    IN [error    |-> r.error,
        scheme   |-> r.scheme,
        netloc   |-> r.netloc,
        path     |-> IF cut THEN Take(r.path, semi - 1) ELSE r.path,
        params   |-> IF cut THEN Drop(r.path, semi) ELSE << >>,
        query    |-> r.query,
        fragment |-> r.fragment]

urlparse(url, scheme) == SplitParams(urlsplit(url, scheme))

\* urlunparse((scheme, netloc, path, params, query, fragment))
urlunparse(scheme, netloc, path, params, query, fragment) ==
    LET u1 == IF params # << >> THEN path \o <<59>> \o params ELSE path
        slashes == Len(u1) >= 2 /\ u1[1] = 47 /\ u1[2] = 47
        u2 == IF netloc # << >>
                 \/ (scheme # << >> /\ scheme \in uses_netloc /\ ~slashes)
              THEN <<47, 47>> \o netloc
                       \o (IF u1 # << >> /\ u1[1] # 47 THEN <<47>> ELSE << >>) \o u1
              ELSE u1
        u3 == IF scheme # << >> THEN scheme \o <<58>> \o u2 ELSE u2
        u4 == IF query # << >> THEN u3 \o <<63>> \o query ELSE u3
    IN IF fragment # << >> THEN u4 \o <<35>> \o fragment ELSE u4

\* The loop over the path segments: ".." drops the segment before it, "."
\* is dropped.
RECURSIVE ResolveSegments(_, _)
ResolveSegments(segments, resolved) ==
    IF segments = << >> THEN resolved
    ELSE IF Head(segments) = <<46, 46>>
         THEN ResolveSegments(Tail(segments),
                              IF resolved = << >> THEN << >>
                              ELSE Take(resolved, Len(resolved) - 1))
    ELSE IF Head(segments) = <<46>> THEN ResolveSegments(Tail(segments), resolved)
    ELSE ResolveSegments(Tail(segments), Append(resolved, Head(segments)))

\* The path of the joined URL: the base path without its last segment,
\* then the segments of the relative path, then the dot segments resolved.
JoinPath(bpath, path) ==
    LET bsplit == Split(bpath, 47)
        base_parts == IF bsplit[Len(bsplit)] # << >>
                      THEN Take(bsplit, Len(bsplit) - 1) ELSE bsplit
        joined == base_parts \o Split(path, 47)
        segments ==
            IF path # << >> /\ path[1] = 47 THEN Split(path, 47)
            ELSE IF Len(joined) < 2 THEN joined
            ELSE <<joined[1]>>
                     \o SelectSeq(SubSeq(joined, 2, Len(joined) - 1), LAMBDA g : g # << >>)
                     \o <<joined[Len(joined)]>>
        resolved == Join(IF segments[Len(segments)] \in {<<46>>, <<46, 46>>}
                         THEN Append(ResolveSegments(segments, << >>), << >>)
                         ELSE ResolveSegments(segments, << >>), 47)
    IN IF resolved = << >> THEN <<47>> ELSE resolved

\* urljoin once both URLs are parsed (b the base, r the other).
JoinParsed(url, b, r) ==
    LET Ok(u) == [error |-> FALSE, url |-> u]
        netloc == IF r.scheme \in uses_netloc THEN b.netloc ELSE r.netloc
    IN IF b.error \/ r.error THEN [error |-> TRUE, url |-> << >>]
       ELSE IF r.scheme # b.scheme \/ r.scheme \notin uses_relative THEN Ok(url)
       ELSE IF r.scheme \in uses_netloc /\ r.netloc # << >>
            THEN Ok(urlunparse(r.scheme, r.netloc, r.path, r.params, r.query, r.fragment))
       ELSE IF r.path = << >> /\ r.params = << >>
            THEN Ok(urlunparse(r.scheme, netloc, b.path, b.params,
                               IF r.query # << >> THEN r.query ELSE b.query, r.fragment))
       ELSE Ok(urlunparse(r.scheme, netloc, JoinPath(b.path, r.path), r.params, r.query,
                          r.fragment))

JoinBase(url, b) == JoinParsed(url, b, urlparse(url, b.scheme))

urljoin(base, url) ==
    IF base = << >> THEN [error |-> FALSE, url |-> url]
    ELSE IF url = << >> THEN [error |-> FALSE, url |-> base]
    ELSE JoinBase(url, urlparse(base, << >>))

(***************************************************************************)
(* extract_coords_from_node                                                *)
(*                                                                         *)
(* A node is what the three selectors see of it: the text of its first     *)
(* .geo element, of its first .latitude and .longitude elements, and the   *)
(* data-lat / data-lon attributes of its first kartographer map link.      *)
(* [geo, latitude, longitude : Optional[str],                              *)
(*  maplink : Optional[[dataLat, dataLon : Optional[str]]]]                *)
(***************************************************************************)
\* The class [;, ] of line 118.
IsGeoSep(c) == c \in {59, 44, 32}

\* re.split(r"[;, ]+", txt): the pieces between separator runs; an empty
\* piece comes first when txt is empty or begins with a separator, and last
\* when txt ends with one.
ReSplit(txt) ==
    LET starts == SelectSeq([i \in 1..Len(txt) |-> i],
                            LAMBDA i : ~IsGeoSep(txt[i]) /\ (i = 1 \/ IsGeoSep(txt[i - 1])))
        last(i) == IF \E j \in i..Len(txt) : IsGeoSep(txt[j])
                   THEN (CHOOSE j \in i..Len(txt) :
                            IsGeoSep(txt[j]) /\ \A k \in i..j : k = j \/ ~IsGeoSep(txt[k])) - 1
                   ELSE Len(txt)
    IN (IF txt = << >> \/ IsGeoSep(txt[1]) THEN <<<< >>>> ELSE << >>)
       \o [k \in 1..Len(starts) |-> SubSeq(txt, starts[k], last(starts[k]))]
       \o (IF txt # << >> /\ IsGeoSep(txt[Len(txt)]) THEN <<<< >>>> ELSE << >>)

\* [p for p in parts if p]
NonEmptyParts(parts) == SelectSeq(parts, LAMBDA p : p # << >>)

\* return (float(x), float(y)) inside try / except ValueError: the pair
\* when both parse, None (the strategy falls through) when either raises.
BothParsed(a, b) == IF a # None /\ b # None THEN Some(<<a, b>>) ELSE None

\* Strategy 1, lines 115-124: the combined geotag.
GeoStrategy(node) ==
    IF node.geo = None THEN None
    ELSE LET parts == NonEmptyParts(ReSplit(_clean_text(Val(node.geo)))) IN
         IF Len(parts) >= 2
         THEN BothParsed(ParseFloat(parts[1]), ParseFloat(parts[2]))
         ELSE None

\* Strategy 2, lines 126-132: separate .latitude / .longitude elements.
LatLonStrategy(node) ==
    IF node.latitude # None /\ node.longitude # None
    THEN BothParsed(ParseFloat(Strip(Val(node.latitude))),
                    ParseFloat(Strip(Val(node.longitude))))
    ELSE None

\* Strategy 3, lines 134-139: the map link's data attributes.
MaplinkStrategy(node) ==
    IF node.maplink # None /\ Val(node.maplink).dataLat # None
                           /\ Val(node.maplink).dataLon # None
    THEN BothParsed(ParseFloat(Val(Val(node.maplink).dataLat)),
                    ParseFloat(Val(Val(node.maplink).dataLon)))
    ELSE None

\* The pair of the first strategy that returned, (None, None) when none did.
FirstReturned(first, second, third) ==
    IF first # None THEN Val(first)
    ELSE IF second # None THEN Val(second)
    ELSE IF third # None THEN Val(third)
    ELSE <<None, None>>

\* A plausible slip: the map link consulted before the microformats.
extract_coords_maplink_first(node) ==
    FirstReturned(MaplinkStrategy(node), GeoStrategy(node), LatLonStrategy(node))

extract_coords_from_node(node) ==
    FirstReturned(GeoStrategy(node), LatLonStrategy(node), MaplinkStrategy(node))

(***************************************************************************)
(* The bed-count part of parse_beds_and_coords_from_hospital               *)
(*                                                                         *)
(* infobox : Optional[sequence of rows], a row [th, td : Optional[str]]    *)
(* holding the text of the row's first th and first td.                    *)
(***************************************************************************)
\* "beds"
BedsLabel == <<98, 101, 100, 115>>
MaxRunDigits == 4

\* re.search(r"(\d{1,4})", s): the leftmost digit starts the match, which
\* greedily takes up to four digits.  None when s holds no digit.
RECURSIVE DigitRunAt(_, _)
DigitRunAt(s, n) ==
    IF n = 0 \/ s = << >> \/ ~IsDigit(Head(s)) THEN << >>
    ELSE <<Head(s)>> \o DigitRunAt(Tail(s), n - 1)
SearchDigits(s) ==
    LET D == {i \in 1..Len(s) : IsDigit(s[i])}
    IN IF D = {} THEN None
       ELSE Some(DigitRunAt(Drop(s, (CHOOSE i \in D : \A j \in D : i <= j) - 1), MaxRunDigits))

\* Lines 162-168: the value cell of the matched row.
BedsFromCell(td) ==
    LET beds_raw == _clean_text(td)
        m == SearchDigits(RemoveCommas(beds_raw))
    IN <<Some(beds_raw), IF m # None THEN Some(DigitsValue(Val(m))) ELSE None>>

\* Lines 156-161.
RowMatches(tr) ==
    /\ tr.th # None
    /\ tr.td # None
    /\ LowerStartsWith(_clean_text(Val(tr.th)), BedsLabel)

\* Lines 155-169: scan the rows, stop at the first match.
RECURSIVE ScanRows(_)
ScanRows(rows) ==
    IF rows = << >> THEN <<None, None>>
    ELSE IF RowMatches(Head(rows)) THEN BedsFromCell(Val(Head(rows).td))
    ELSE ScanRows(Tail(rows))

\* A plausible slip: no break, so the last matching row decides.
RECURSIVE ScanRowsNoBreak(_, _)
ScanRowsNoBreak(rows, acc) ==
    IF rows = << >> THEN acc
    ELSE IF RowMatches(Head(rows))
         THEN ScanRowsNoBreak(Tail(rows), BedsFromCell(Val(Head(rows).td)))
         ELSE ScanRowsNoBreak(Tail(rows), acc)
parse_beds_last_match(infobox) ==
    IF infobox = None THEN <<None, None>> ELSE ScanRowsNoBreak(Val(infobox), <<None, None>>)

\* Lines 151-169: <<beds_raw, beds_int>>.
parse_beds(infobox) ==
    IF infobox = None THEN <<None, None>> ELSE ScanRows(Val(infobox))

(***************************************************************************)
(* Program constants                                                       *)
(***************************************************************************)
\* "https://en.wikipedia.org"
WIKI_BASE == <<104, 116, 116, 112, 115, 58, 47, 47, 101, 110, 46, 119, 105, 107, 105, 112, 101,
        100, 105, 97, 46, 111, 114, 103>>

\* "Fraser Health", "Interior Health", "Island Health", "Northern Health",
\* "Vancouver Coastal Health", "Provincial Health Services Authority",
\* "Providence Health Care", "Other"
HEALTH_SECTIONS == <<
    <<70, 114, 97, 115, 101, 114, 32, 72, 101, 97, 108, 116, 104>>,
    <<73, 110, 116, 101, 114, 105, 111, 114, 32, 72, 101, 97, 108, 116, 104>>,
    <<73, 115, 108, 97, 110, 100, 32, 72, 101, 97, 108, 116, 104>>,
    <<78, 111, 114, 116, 104, 101, 114, 110, 32, 72, 101, 97, 108, 116, 104>>,
    <<86, 97, 110, 99, 111, 117, 118, 101, 114, 32, 67, 111, 97, 115, 116, 97, 108, 32, 72,
            101, 97, 108, 116, 104>>,
    <<80, 114, 111, 118, 105, 110, 99, 105, 97, 108, 32, 72, 101, 97, 108, 116, 104, 32, 83,
            101, 114, 118, 105, 99, 101, 115, 32, 65, 117, 116, 104, 111, 114, 105, 116, 121>>,
    <<80, 114, 111, 118, 105, 100, 101, 110, 99, 101, 32, 72, 101, 97, 108, 116, 104, 32, 67,
            97, 114, 101>>,
    <<79, 116, 104, 101, 114>> >>

HTTP_OK == 200
EXIT_OK == 0
\* The status of a process ended by an uncaught exception.
EXIT_UNCAUGHT == 1
EXIT_FETCH_FAILED == 2
EXIT_NO_ROWS == 3

(***************************************************************************)
(* _fetch                                                                  *)
(*                                                                         *)
(* What the network answers to one GET: [exc, status, body], exc standing  *)
(* for a requests.RequestException raised by the session.                  *)
(***************************************************************************)
_fetch(answer) ==
    IF ~answer.exc /\ answer.status = HTTP_OK THEN Some(answer.body) ELSE None

(***************************************************************************)
(* parse_list_tables                                                       *)
(*                                                                         *)
(* The listing document is the sequence of its wikitable rows in document  *)
(* order, each row [section, cells, firstIsTh, nameText, href, cityText,   *)
(* node]: the index in HEALTH_SECTIONS of the heading its table stands     *)
(* under, the number of td/th cells, whether the first cell is a th, the   *)
(* text of the first and second cell, the href of the first cell's first   *)
(* link, and the row as extract_coords_from_node sees it.                  *)
(***************************************************************************)
\* urlparse.urljoin(WIKI_BASE, href)
UrlJoin(href) == urljoin(WIKI_BASE, href)

\* Lines 83-92: the rows that yield a record.
RowQualifies(tr) ==
    /\ tr.cells >= 2
    /\ ~tr.firstIsTh
    /\ _clean_text(tr.nameText) # << >>

\* Line 96 raises ValueError on this row's link.
RowRaises(tr) == tr.href # None /\ Val(tr.href) # << >> /\ UrlJoin(Val(tr.href)).error

\* Lines 89-110: the record of one qualifying row.
RowRecord(tr) ==
    LET ll == extract_coords_from_node(tr.node) IN
    [HealthAuthority |-> HEALTH_SECTIONS[tr.section],
     FacilityName    |-> _clean_text(tr.nameText),
     LocationCity    |-> _clean_text(tr.cityText),
     Latitude        |-> ll[1],
     Longitude       |-> ll[2],
     HospitalPageURL |-> IF tr.href # None /\ Val(tr.href) # << >>
                         THEN Some(UrlJoin(Val(tr.href)).url) ELSE None]

\* Lines 80-110 for one section: its rows in document order.
RECURSIVE SectionRows(_, _)
SectionRows(doc, s) ==
    IF doc = << >> THEN << >>
    ELSE IF Head(doc).section = s /\ RowQualifies(Head(doc))
         THEN <<RowRecord(Head(doc))>> \o SectionRows(Tail(doc), s)
         ELSE SectionRows(Tail(doc), s)

\* Lines 79-111: section by section, in the order of HEALTH_SECTIONS.
RECURSIVE ParseFromSection(_, _)
ParseFromSection(doc, s) ==
    IF s > Len(HEALTH_SECTIONS) THEN << >>
    ELSE SectionRows(doc, s) \o ParseFromSection(doc, s + 1)
parse_list_tables(doc) == ParseFromSection(doc, 1)

\* parse_list_tables does not return: the ValueError of line 96 on some
\* qualifying row leaves it, and main, uncaught.
parse_list_raises(doc) == \E i \in DOMAIN doc : RowQualifies(doc[i]) /\ RowRaises(doc[i])

(***************************************************************************)
(* parse_beds_and_coords_from_hospital and worker                          *)
(*                                                                         *)
(* A detail page is [node, infobox]: the whole document as                 *)
(* extract_coords_from_node sees it, and its first table.infobox.          *)
(***************************************************************************)
NoDetail == <<None, None, None, None>>

\* Lines 143-171: <<beds_raw, beds_int, lat, lon>>.
parse_beds_and_coords_from_hospital(answer) ==
    LET r == _fetch(answer) IN
    IF r = None THEN NoDetail
    ELSE LET ll == extract_coords_from_node(Val(r).node)
             bb == parse_beds(Val(r).infobox)
         IN <<bb[1], bb[2], ll[1], ll[2]>>

\* Lines 188-196: rec.update(...) given the detail tuple d.
worker_update(rec, d) ==
    [HealthAuthority |-> rec.HealthAuthority,
     FacilityName    |-> rec.FacilityName,
     LocationCity    |-> rec.LocationCity,
     HospitalPageURL |-> rec.HospitalPageURL,
     BedsRaw         |-> d[1],
     Beds            |-> d[2],
     BedsSourceURL   |-> IF TruthyStr(d[1]) THEN rec.HospitalPageURL ELSE None,
     Latitude        |-> PyOr(rec.Latitude, d[3]),
     Longitude       |-> PyOr(rec.Longitude, d[4])]

\* Line 187, time.sleep(d) for a float d that is not zero, on CPython 3.11
\* and Linux: what the call can do.  A NaN is a ValueError; a length that
\* does not fit 64 bits of nanoseconds (2^63 ns and more, -2^63 ns not
\* included) is an OverflowError; any other negative length is a ValueError.
\* The limits stand halfway between the last double that fits and the
\* first that does not.  The operating system refuses (OSError) a sleep
\* that ends beyond 9223372036 s of its monotonic clock, which from 10^9 s
\* on depends on how long the machine has been up.
SleepOutcomes(d) ==
    LET mag == Len(d.digits) + d.exp
        above == <<9, 2, 2, 3, 3, 7, 2, 0, 3, 6, 8, 5, 4, 7, 7, 5, 4, 2, 8, 7, 7, 1, 9, 7, 2,
                6, 5, 6, 2, 5>>
        from == <<9, 2, 2, 3, 3, 7, 2, 0, 3, 6, 8, 5, 4, 7, 7, 7, 3, 3, 6, 1, 2, 0, 6, 0, 5, 4,
                6, 8, 7, 5>>
    IN IF d.kind = "nan" THEN {"ValueError"}
       ELSE IF d.kind = "inf" \/ mag > 10 THEN {"OverflowError"}
       ELSE IF mag = 10 /\ ~d.neg /\ StrLess(above, d.digits) THEN {"OverflowError"}
       ELSE IF mag = 10 /\ d.neg /\ ~StrLess(d.digits, from) THEN {"OverflowError"}
       ELSE IF d.neg /\ d.digits # << >> THEN {"ValueError"}
       ELSE IF mag = 10 THEN {"returns", "OSError"}
       ELSE {"returns"}

(***************************************************************************)
(* main's tail: DataFrame, drop_duplicates, sort_values                    *)
(***************************************************************************)
DupKey(r) == <<r.FacilityName, r.LocationCity>>

\* df.drop_duplicates(subset=[Facility Name, Location City]): keep="first".
RECURSIVE DropFrom(_, _)
DropFrom(rows, seen) ==
    IF rows = << >> THEN << >>
    ELSE IF DupKey(Head(rows)) \in seen THEN DropFrom(Tail(rows), seen)
    ELSE <<Head(rows)>> \o DropFrom(Tail(rows), seen \cup {DupKey(Head(rows))})

\* A plausible slip: keep="last".
RECURSIVE DropKeepLast(_)
DropKeepLast(rows) ==
    IF rows = << >> THEN << >>
    ELSE IF \E i \in 2..Len(rows) : DupKey(rows[i]) = DupKey(Head(rows))
         THEN DropKeepLast(Tail(rows))
         ELSE <<Head(rows)>> \o DropKeepLast(Tail(rows))

drop_duplicates(rows) == DropFrom(rows, {})

\* The sort key's order: Health Authority, then Facility Name.
SortKeyLess(a, b) ==
    \/ StrLess(a.HealthAuthority, b.HealthAuthority)
    \/ /\ a.HealthAuthority = b.HealthAuthority
       /\ StrLess(a.FacilityName, b.FacilityName)

\* Insert x after every row that is not greater than it (a stable sort).
RECURSIVE InsertRow(_, _)
InsertRow(sorted, x) ==
    IF sorted = << >> THEN <<x>>
    ELSE IF SortKeyLess(x, Head(sorted)) THEN <<x>> \o sorted
    ELSE <<Head(sorted)>> \o InsertRow(Tail(sorted), x)
RECURSIVE SortFrom(_, _)
SortFrom(rows, sorted) ==
    IF rows = << >> THEN sorted ELSE SortFrom(Tail(rows), InsertRow(sorted, Head(rows)))

\* A plausible slip: the frame written in the order it was collected.
sort_values_skipped(rows) == rows

\* df.sort_values([Health Authority, Facility Name]): ascending, ties in
\* their current order.
sort_values(rows) == SortFrom(rows, << >>)

\* Lines 224-239: the rows of the frame handed to to_csv.
assemble(full_rows) == sort_values(drop_duplicates(full_rows))


(***************************************************************************)
(* Bounds and the inputs the model draws                                   *)
(***************************************************************************)
MaxRows == 3        \* table rows of a listing document
MaxWorkers == 2     \* --workers ranges over 0..MaxWorkers
MaxBoxRows == 2     \* rows of an infobox
MaxRecs == 3        \* records handed to main's tail

Node(g, la, lo, ml) == [geo |-> g, latitude |-> la, longitude |-> lo, maplink |-> ml]
Maplink(la, lo) == Some([dataLat |-> la, dataLon |-> lo])
BareNode == Node(None, None, None, None)

\* "49.2;\n-123.1"
T_Geo49 == <<52, 57, 46, 50, 59, 10, 45, 49, 50, 51, 46, 49>>
\* "0.0; -123.1"
T_GeoZero == <<48, 46, 48, 59, 32, 45, 49, 50, 51, 46, 49>>
\* "0.0, 7"
T_GeoZeroComma == <<48, 46, 48, 44, 32, 55>>
\* "nan nan"
T_GeoNan == <<110, 97, 110, 32, 110, 97, 110>>
\* "1e1;\t2_0"
T_GeoExp == <<49, 101, 49, 59, 9, 50, 95, 48>>
\* "49.3; -123.0"
T_GeoDetail == <<52, 57, 46, 51, 59, 32, 45, 49, 50, 51, 46, 48>>
\* " 50.5\n"
T_Lat50 == <<32, 53, 48, 46, 53, 10>>
\* "\x1c-120.5\t": str.strip() takes the file separator off, float() would not
T_Lon120 == <<28, 45, 49, 50, 48, 46, 53, 9>>
\* "48.4\n"
T_MapLat == <<52, 56, 46, 52, 10>>
\* "-123.3"
T_MapLon == <<45, 49, 50, 51, 46, 51>>

\* The geotags: none, "49.2;\n-123.1", "0.0, 7", "49.2" (one part),
\* "N49 W123", "nan nan", "1e1;\t2_0".
GeoTexts == {None, Some(T_Geo49), Some(T_GeoZeroComma), Some(<<52, 57, 46, 50>>),
             Some(<<78, 52, 57, 32, 87, 49, 50, 51>>), Some(T_GeoNan), Some(T_GeoExp)}
\* The .latitude texts: none, " 50.5\n", "x".
LatTexts == {None, Some(T_Lat50), Some(<<120>>)}
\* The .longitude texts: none, "\x1c-120.5\t", "W".
LonTexts == {None, Some(T_Lon120), Some(<<87>>)}
\* The map links: none, ("48.4\n", "-123.3"), one without data-lon,
\* ("north", "-123.3"), and ("\x1c48.4", "-123.3"), whose file separator
\* float() does not strip.
Maplinks == {None, Maplink(Some(T_MapLat), Some(T_MapLon)), Maplink(Some(T_MapLat), None),
             Maplink(Some(<<110, 111, 114, 116, 104>>), Some(T_MapLon)),
             Maplink(Some(<<28, 52, 56, 46, 52>>), Some(T_MapLon))}
Nodes == {Node(g, la, lo, ml) : g \in GeoTexts, la \in LatTexts, lo \in LonTexts,
        ml \in Maplinks}

InfoRow(h, d) == [th |-> h, td |-> d]
\* "  Beds\n(2020)"
T_Beds2020 == <<32, 32, 66, 101, 100, 115, 10, 40, 50, 48, 50, 48, 41>>
\* "312\n(acute)"
T_312Acute == <<51, 49, 50, 10, 40, 97, 99, 117, 116, 101, 41>>
\* "\tBEDS\xa0"
T_BedsUpper == <<9, 66, 69, 68, 83, 160>>
\* "n/a"
T_NotAvailable == <<110, 47, 97>>
\* "beds"
T_BedsLower == <<98, 101, 100, 115>>
\* "1,2345  beds"
T_Comma == <<49, 44, 50, 51, 52, 53, 32, 32, 98, 101, 100, 115>>
\* "bEdS:"
T_BedsMixed == <<98, 69, 100, 83, 58>>
\* "٣١٢ beds": 312 in Arabic-Indic digits
T_ArabicIndic == <<1635, 1633, 1634, 32, 98, 101, 100, 115>>
\* "Beds"
T_Beds == <<66, 101, 100, 115>>
\* The other rows: "Founded" / "1906", no th / "75", "Number of beds" / "40".
InfoRows == {InfoRow(Some(<<70, 111, 117, 110, 100, 101, 100>>), Some(<<49, 57, 48, 54>>)),
             InfoRow(Some(T_Beds2020), Some(T_312Acute)),
             InfoRow(Some(T_BedsUpper), Some(T_NotAvailable)),
             InfoRow(Some(T_Beds), None),
             InfoRow(None, Some(<<55, 53>>)),
             InfoRow(Some(T_BedsLower), Some(T_Comma)),
             InfoRow(Some(T_BedsMixed), Some(T_ArabicIndic)),
             InfoRow(Some(<<78, 117, 109, 98, 101, 114, 32, 111, 102, 32, 98, 101, 100, 115>>),
                     Some(<<52, 48>>))}

SeqsUpTo(S, n) == UNION {[1..k -> S] : k \in 0..n}
Infoboxes == {None} \cup {Some(b) : b \in SeqsUpTo(InfoRows, MaxBoxRows)}

\* The candidate rows of the listing document, in document order; a listing
\* holds at most MaxRows of them.
TableRow(s, n, h, nm, hr, c, nd) ==
    [section |-> s, cells |-> n, firstIsTh |-> h, nameText |-> nm, href |-> hr,
     cityText |-> c, node |-> nd]
\* 1: "D", href "/wiki/D", city "Y"
\* 2: " A\n", href "wiki/A" (a relative path), city "X", with a geotag
\* 3: a header row, "Name" / "City"
\* 4: "B", href "https://www.example.org/h" (an external link),
\*    city "X\n\tY", with a geotag of latitude 0.0
\* 5: "\n\xa0" (a blank name), city "X"
\* 6: "C", no link, city ""
\* 7: "E", a row of one cell
\* 8: "F", href "//[" (a host urljoin rejects), city "Z"
ListingRows == <<
    TableRow(2, 3, FALSE, <<68>>, Some(<<47, 119, 105, 107, 105, 47, 68>>), <<89>>, BareNode),
    TableRow(1, 3, FALSE, <<32, 65, 10>>, Some(<<119, 105, 107, 105, 47, 65>>), <<88>>,
             Node(Some(T_Geo49), None, None, None)),
    TableRow(1, 3, TRUE, <<78, 97, 109, 101>>, None, <<67, 105, 116, 121>>, BareNode),
    TableRow(5, 3, FALSE, <<66>>, Some(<<104, 116, 116, 112, 115, 58, 47, 47, 119, 119, 119,
            46, 101, 120, 97, 109, 112, 108, 101, 46, 111, 114, 103, 47, 104>>),
             <<88, 10, 9, 89>>, Node(Some(T_GeoZero), None, None, None)),
    TableRow(5, 2, FALSE, <<10, 160>>, None, <<88>>, BareNode),
    TableRow(1, 2, FALSE, <<67>>, None, << >>, BareNode),
    TableRow(6, 1, FALSE, <<69>>, None, << >>, BareNode),
    TableRow(8, 2, FALSE, <<70>>, Some(<<47, 47, 91>>), <<90>>, BareNode) >>

RECURSIVE PickRows(_, _)
PickRows(i, S) ==
    IF i > Len(ListingRows) THEN << >>
    ELSE (IF i \in S THEN <<ListingRows[i]>> ELSE << >>) \o PickRows(i + 1, S)
Listings == {PickRows(1,
        S) : S \in {T \in SUBSET DOMAIN ListingRows : Cardinality(T) <= MaxRows}}

\* --delay: the default, half a second, a negative number and infinity.
Delays == {Val(ParseFloat(a)) : a \in {<<48, 46, 48>>, <<48, 46, 53>>,
                                       <<45, 49>>, <<105, 110, 102>>}}

Answer(e, s, b) == [exc |-> e, status |-> s, body |-> b]
\* A 404 response, and a transport error (no response at all).
FailedAnswers == {Answer(FALSE, 404, << >>), Answer(TRUE, 0, << >>)}
ListAnswers == {Answer(FALSE, HTTP_OK, d) : d \in Listings} \cup FailedAnswers

DetailPage(nd, box) == [node |-> nd, infobox |-> box]
DetailPages == {
    DetailPage(Node(Some(T_GeoDetail), None, None, None),
               Some(<<InfoRow(Some(T_Beds2020), Some(T_312Acute))>>)),
    DetailPage(BareNode, Some(<<InfoRow(Some(T_BedsUpper), Some(T_NotAvailable))>>)) }
DetailAnswers == {Answer(FALSE, HTTP_OK, p) : p \in DetailPages} \cup FailedAnswers

\* Enriched records handed to main's tail; the names are "A", "a", "B" and
\* the cities "X", "Y".
Enriched(ha, nm, c, beds) ==
    [HealthAuthority |-> HEALTH_SECTIONS[ha], FacilityName |-> nm, LocationCity |-> c,
     HospitalPageURL |-> None, BedsRaw |-> None, Beds |-> beds, BedsSourceURL |-> None,
     Latitude |-> None, Longitude |-> None]
EnrichedRecords == {
    Enriched(1, <<65>>, <<88>>, Some(1)),
    Enriched(2, <<65>>, <<88>>, Some(2)),
    Enriched(1, <<65>>, <<89>>, None),
    Enriched(1, <<97>>, <<88>>, None),
    Enriched(8, <<66>>, <<88>>, None) }

Shuffles(s) ==
    {[i \in DOMAIN s |-> s[p[i]]] : p \in {q \in [DOMAIN s -> DOMAIN s] :
                                            \A i, j \in DOMAIN s : q[i] = q[j] => i = j}}

(***************************************************************************)
(* State                                                                   *)
(***************************************************************************)
VARIABLES
    pc,           \* main's position: "start", "parse", "enrich", "raising",
                  \* "assemble", "exit"
    exitCode,     \* Optional: the process's exit status
    list_resp,    \* Optional: the listing document _fetch returned
    base_rows,    \* parse_list_tables' records as they were built
    heap,         \* the dict objects of rows, by position; workers update them in place
    max_workers,  \* args.workers (argparse's type=int takes any integer)
    delay,        \* args.delay (argparse's type=float takes any float)
    taskRec,      \* the dict each submitted task was given
    taskState,    \* of each submitted task: "queued", "running", "hasurl",
                  \* "waiting", "sleep", "ready", "done", "failed", "cancelled",
                  \* "yielded"
    taskLocal,    \* a task's <<beds_raw, beds_int, lat2, lon2>>
    netAnswer,    \* what the network answered to each task's GET
    doneOrder,    \* the tasks in the order they returned
    out,          \* the list out: dict objects in the order appended
    fetched,      \* the dicts a detail GET was issued for
    readBy,       \* for each dict, the tasks that read it
    writtenBy,    \* for each dict, the tasks that updated it
    appenders,    \* the threads that appended to out
    written,      \* how many times the CSV was written
    csv,          \* the rows written
    coordNode, coordResult,                 \* extract_coords_from_node on its own
    bedsBox, bedsResult,                    \* the bed-count scan on its own
    asmRows, asmPerm, asmOut, asmPermOut    \* main's tail on its own

pipeVars == <<pc, exitCode, list_resp, base_rows, heap, max_workers, delay, taskRec,
              taskState, taskLocal, netAnswer, doneOrder, out, fetched, readBy, writtenBy,
              appenders, written, csv>>
coordVars == <<coordNode, coordResult>>
bedsVars == <<bedsBox, bedsResult>>
asmVars == <<asmRows, asmPerm, asmOut, asmPermOut>>
vars == <<pipeVars, coordVars, bedsVars, asmVars>>

PipeStart ==
    /\ pc = "start" /\ exitCode = None /\ list_resp = None /\ base_rows = << >>
    /\ heap = << >> /\ taskRec = << >> /\ taskState = << >> /\ taskLocal = << >>
    /\ netAnswer = << >> /\ doneOrder = << >> /\ out = << >> /\ fetched = {}
    /\ readBy = << >> /\ writtenBy = << >> /\ appenders = {} /\ written = 0 /\ csv = None
CoordsIdle == coordNode = BareNode /\ coordResult = None
BedsIdle == bedsBox = None /\ bedsResult = None
AsmIdle == asmRows = << >> /\ asmPerm = << >> /\ asmOut = None /\ asmPermOut = None

(***************************************************************************)
(* main and enrich_with_hospital_pages                                     *)
(*                                                                         *)
(* The main thread parses, opens the pool, submits one task per record     *)
(* (ex.map submits them all before it yields a result), then takes the     *)
(* results in submission order.  A pool thread runs a task from the moment *)
(* it took it off the queue; the pool starts a thread at a submit unless a *)
(* thread is idle, up to max_workers threads, so that the oldest queued    *)
(* task can start exactly when fewer than max_workers tasks are running.   *)
(* The steps of the tasks and of the main thread interleave freely.        *)
(***************************************************************************)
Init ==
    /\ PipeStart
    /\ max_workers \in 0..MaxWorkers
    /\ delay \in Delays
    /\ CoordsIdle /\ BedsIdle /\ AsmIdle

Tasks == DOMAIN taskState
\* The tasks a pool thread is executing.
Running == {t \in Tasks : taskState[t] \in {"running", "hasurl", "waiting", "sleep", "ready"}}

\* Lines 212-215.
FetchListPage ==
    /\ pc = "start"
    /\ \E answer \in ListAnswers :
         /\ list_resp' = _fetch(answer)
         /\ IF _fetch(answer) = None
            THEN pc' = "exit" /\ exitCode' = Some(EXIT_FETCH_FAILED)
            ELSE pc' = "parse" /\ exitCode' = exitCode
    /\ UNCHANGED <<base_rows, heap, max_workers, delay, taskRec, taskState, taskLocal,
                   netAnswer, doneOrder, out, fetched, readBy, writtenBy, appenders,
                   written, csv>>
    /\ UNCHANGED <<coordVars, bedsVars, asmVars>>

\* Lines 217-220 and 199, all on the main thread before any pool thread
\* exists: parse, stop on an empty list, open the pool.  A ValueError out
\* of parse_list_tables (line 96) is caught nowhere, and neither is the one
\* ThreadPoolExecutor(max_workers=n) raises for n <= 0.
ParseAndOpenPool ==
    /\ pc = "parse"
    /\ IF parse_list_raises(Val(list_resp))
       THEN /\ pc' = "exit" /\ exitCode' = Some(EXIT_UNCAUGHT)
            /\ UNCHANGED <<base_rows, heap, readBy, writtenBy>>
       ELSE /\ base_rows' = parse_list_tables(Val(list_resp))
            /\ IF base_rows' = << >>
               THEN /\ pc' = "exit" /\ exitCode' = Some(EXIT_NO_ROWS)
                    /\ UNCHANGED <<heap, readBy, writtenBy>>
               ELSE IF max_workers <= 0
               THEN /\ pc' = "exit" /\ exitCode' = Some(EXIT_UNCAUGHT)
                    /\ UNCHANGED <<heap, readBy, writtenBy>>
               ELSE /\ pc' = "enrich" /\ exitCode' = exitCode
                    /\ heap' = base_rows'
                    /\ readBy' = [i \in DOMAIN base_rows' |-> {}]
                    /\ writtenBy' = [i \in DOMAIN base_rows' |-> {}]
    /\ UNCHANGED <<list_resp, max_workers, delay, taskRec, taskState, taskLocal, netAnswer,
                   doneOrder, out, fetched, appenders, written, csv>>
    /\ UNCHANGED <<coordVars, bedsVars, asmVars>>

\* ex.map(worker, rows) hands the i-th dict of rows to the i-th task.
TaskArgument(i) == i

\* Line 200, inside ex.map: submit(worker, rec) for the next dict of rows,
\* while the pool threads already run the tasks submitted before.
Submit ==
    /\ pc = "enrich"
    /\ Len(taskState) < Len(heap)
    /\ taskRec' = Append(taskRec, TaskArgument(Len(taskState) + 1))
    /\ taskState' = Append(taskState, "queued")
    /\ taskLocal' = Append(taskLocal, NoDetail)
    /\ netAnswer' = Append(netAnswer, None)
    /\ UNCHANGED <<pc, exitCode, list_resp, base_rows, heap, max_workers, delay, doneOrder,
                   out, fetched, readBy, writtenBy, appenders, written, csv>>
    /\ UNCHANGED <<coordVars, bedsVars, asmVars>>

\* A pool thread takes the oldest queued task; at most max_workers run.
WorkerStart(t) ==
    /\ taskState[t] = "queued"
    /\ \A u \in Tasks : u < t => taskState[u] # "queued"
    /\ Cardinality(Running) < max_workers
    /\ taskState' = [taskState EXCEPT ![t] = "running"]
    /\ UNCHANGED <<pc, exitCode, list_resp, base_rows, heap, max_workers, delay, taskRec,
                   taskLocal, netAnswer, doneOrder, out, fetched, readBy, writtenBy,
                   appenders, written, csv>>
    /\ UNCHANGED <<coordVars, bedsVars, asmVars>>

\* Lines 178-183: url = rec.get("Hospital Page URL"), and the test of it.
WorkerReadUrl(t) ==
    /\ taskState[t] = "running"
    /\ readBy' = [readBy EXCEPT ![taskRec[t]] = @ \cup {t}]
    /\ taskState' = [taskState EXCEPT
                       ![t] = IF TruthyStr(heap[taskRec[t]].HospitalPageURL)
                              THEN "hasurl" ELSE "ready"]
    /\ UNCHANGED <<pc, exitCode, list_resp, base_rows, heap, max_workers, delay, taskRec,
                   taskLocal, netAnswer, doneOrder, out, fetched, writtenBy, appenders,
                   written, csv>>
    /\ UNCHANGED <<coordVars, bedsVars, asmVars>>

\* Lines 184, 144 and 44: the GET leaves; the thread blocks until the
\* answer comes.
WorkerIssueGet(t) ==
    /\ taskState[t] = "hasurl"
    /\ fetched' = fetched \cup {taskRec[t]}
    /\ taskState' = [taskState EXCEPT ![t] = "waiting"]
    /\ UNCHANGED <<pc, exitCode, list_resp, base_rows, heap, max_workers, delay, taskRec,
                   taskLocal, netAnswer, doneOrder, out, readBy, writtenBy, appenders,
                   written, csv>>
    /\ UNCHANGED <<coordVars, bedsVars, asmVars>>

\* Lines 45-52, 145-171 and 184-186: the answer comes, the page is parsed
\* into the task's locals, and delay is tested.
WorkerAnswer(t) ==
    /\ taskState[t] = "waiting"
    /\ \E answer \in DetailAnswers :
         /\ taskLocal' = [taskLocal EXCEPT ![t] = parse_beds_and_coords_from_hospital(answer)]
         /\ netAnswer' = [netAnswer EXCEPT ![t] = Some(answer)]
    /\ taskState' = [taskState EXCEPT
                       ![t] = IF TruthyFloat(Some(delay)) THEN "sleep" ELSE "ready"]
    /\ UNCHANGED <<pc, exitCode, list_resp, base_rows, heap, max_workers, delay, taskRec,
                   doneOrder, out, fetched, readBy, writtenBy, appenders, written, csv>>
    /\ UNCHANGED <<coordVars, bedsVars, asmVars>>

\* Line 187: time.sleep(delay) returns, or raises; the exception leaves
\* worker and is kept in the task's future.
WorkerSleep(t) ==
    /\ taskState[t] = "sleep"
    /\ \E outcome \in SleepOutcomes(delay) :
         taskState' = [taskState EXCEPT
                         ![t] = IF outcome = "returns" THEN "ready" ELSE "failed"]
    /\ UNCHANGED <<pc, exitCode, list_resp, base_rows, heap, max_workers, delay, taskRec,
                   taskLocal, netAnswer, doneOrder, out, fetched, readBy, writtenBy,
                   appenders, written, csv>>
    /\ UNCHANGED <<coordVars, bedsVars, asmVars>>

\* Lines 188-197: merge into the dict and return it.
WorkerUpdate(t) ==
    /\ taskState[t] = "ready"
    /\ heap' = [heap EXCEPT ![taskRec[t]] = worker_update(heap[taskRec[t]], taskLocal[t])]
    /\ readBy' = [readBy EXCEPT ![taskRec[t]] = @ \cup {t}]
    /\ writtenBy' = [writtenBy EXCEPT ![taskRec[t]] = @ \cup {t}]
    /\ taskState' = [taskState EXCEPT ![t] = "done"]
    /\ doneOrder' = Append(doneOrder, t)
    /\ UNCHANGED <<pc, exitCode, list_resp, base_rows, max_workers, delay, taskRec,
                   taskLocal, netAnswer, out, fetched, appenders, written, csv>>
    /\ UNCHANGED <<coordVars, bedsVars, asmVars>>

\* A plausible slip: results taken as they complete (futures.as_completed).
ReadyAsCompleted == {t \in Tasks : taskState[t] = "done"}
\* ex.map yields the results in submission order: the next one is the
\* result of task Len(out) + 1, once that task has returned.
Ready == {t \in Tasks : t = Len(out) + 1 /\ taskState[t] = "done"}

\* Lines 200-201, on the main thread, once every task is submitted:
\* out.append(result).
Collect(t) ==
    /\ pc = "enrich"
    /\ Len(taskState) = Len(heap)
    /\ t \in Ready
    /\ out' = Append(out, taskRec[t])
    /\ taskState' = [taskState EXCEPT ![t] = "yielded"]
    /\ appenders' = appenders \cup {"main"}
    /\ UNCHANGED <<pc, exitCode, list_resp, base_rows, heap, max_workers, delay, taskRec,
                   taskLocal, netAnswer, doneOrder, fetched, readBy, writtenBy, written, csv>>
    /\ UNCHANGED <<coordVars, bedsVars, asmVars>>

\* Line 200: the next result is an exception, which ex.map raises again on
\* the main thread.
ResultRaises ==
    /\ pc = "enrich"
    /\ Len(taskState) = Len(heap)
    /\ Len(out) < Len(taskState)
    /\ taskState[Len(out) + 1] = "failed"
    /\ pc' = "raising"
    /\ UNCHANGED <<exitCode, list_resp, base_rows, heap, max_workers, delay, taskRec,
                   taskState, taskLocal, netAnswer, doneOrder, out, fetched, readBy,
                   writtenBy, appenders, written, csv>>
    /\ UNCHANGED <<coordVars, bedsVars, asmVars>>

\* Line 200: on its way out ex.map cancels the futures it has not yielded,
\* the last submitted first; a task no thread has taken yet will not run.
CancelPending(t) ==
    /\ pc = "raising"
    /\ taskState[t] = "queued"
    /\ \A u \in Tasks : u > t => taskState[u] # "queued"
    /\ taskState' = [taskState EXCEPT ![t] = "cancelled"]
    /\ UNCHANGED <<pc, exitCode, list_resp, base_rows, heap, max_workers, delay, taskRec,
                   taskLocal, netAnswer, doneOrder, out, fetched, readBy, writtenBy,
                   appenders, written, csv>>
    /\ UNCHANGED <<coordVars, bedsVars, asmVars>>

\* Line 199: leaving the with block waits for the tasks still running; then
\* the exception leaves enrich_with_hospital_pages and main, uncaught.
Abort ==
    /\ pc = "raising"
    /\ \A t \in Tasks : taskState[t] # "queued" /\ t \notin Running
    /\ pc' = "exit"
    /\ exitCode' = Some(EXIT_UNCAUGHT)
    /\ UNCHANGED <<list_resp, base_rows, heap, max_workers, delay, taskRec, taskState,
                   taskLocal, netAnswer, doneOrder, out, fetched, readBy, writtenBy,
                   appenders, written, csv>>
    /\ UNCHANGED <<coordVars, bedsVars, asmVars>>

\* Lines 199-203: every result is in out; the pool is closed and out returned.
EnrichReturn ==
    /\ pc = "enrich"
    /\ Len(out) = Len(heap)
    /\ pc' = "assemble"
    /\ UNCHANGED <<exitCode, list_resp, base_rows, heap, max_workers, delay, taskRec,
                   taskState, taskLocal, netAnswer, doneOrder, out, fetched, readBy,
                   writtenBy, appenders, written, csv>>
    /\ UNCHANGED <<coordVars, bedsVars, asmVars>>

full_rows == [k \in DOMAIN out |-> heap[out[k]]]

\* Lines 224-240: the frame is assembled and written, and main returns.
WriteOutput ==
    /\ pc = "assemble"
    /\ csv' = Some(assemble(full_rows))
    /\ written' = written + 1
    /\ pc' = "exit"
    /\ exitCode' = Some(EXIT_OK)
    /\ UNCHANGED <<list_resp, base_rows, heap, max_workers, delay, taskRec, taskState,
                   taskLocal, netAnswer, doneOrder, out, fetched, readBy, writtenBy,
                   appenders>>
    /\ UNCHANGED <<coordVars, bedsVars, asmVars>>

Next ==
    \/ FetchListPage
    \/ ParseAndOpenPool
    \/ Submit
    \/ \E t \in Tasks : WorkerStart(t)
    \/ \E t \in Tasks : WorkerReadUrl(t)
    \/ \E t \in Tasks : WorkerIssueGet(t)
    \/ \E t \in Tasks : WorkerAnswer(t)
    \/ \E t \in Tasks : WorkerSleep(t)
    \/ \E t \in Tasks : WorkerUpdate(t)
    \/ \E t \in Tasks : Collect(t)
    \/ ResultRaises
    \/ \E t \in Tasks : CancelPending(t)
    \/ Abort
    \/ EnrichReturn
    \/ WriteOutput

Spec == Init /\ [][Next]_vars

(***************************************************************************)
(* extract_coords_from_node on its own                                     *)
(***************************************************************************)
PipeIdle == PipeStart /\ max_workers = 1 /\ delay = Zero(FALSE)

InitCoords ==
    /\ coordNode \in Nodes
    /\ coordResult = None
    /\ PipeIdle /\ BedsIdle /\ AsmIdle

ExtractCoords ==
    /\ coordResult = None
    /\ coordResult' = Some(extract_coords_from_node(coordNode))
    /\ UNCHANGED <<coordNode, pipeVars, bedsVars, asmVars>>

SpecCoords == InitCoords /\ [][ExtractCoords]_vars

(***************************************************************************)
(* The bed-count scan on its own                                           *)
(***************************************************************************)
InitBeds ==
    /\ bedsBox \in Infoboxes
    /\ bedsResult = None
    /\ PipeIdle /\ CoordsIdle /\ AsmIdle

ParseBeds ==
    /\ bedsResult = None
    /\ bedsResult' = Some(parse_beds(bedsBox))
    /\ UNCHANGED <<bedsBox, pipeVars, coordVars, asmVars>>

SpecBeds == InitBeds /\ [][ParseBeds]_vars

(***************************************************************************)
(* main's tail on its own, run on a list of records and on a permutation   *)
(* of that list                                                            *)
(***************************************************************************)
InitAssemble ==
    /\ asmRows \in SeqsUpTo(EnrichedRecords, MaxRecs)
    /\ asmPerm \in Shuffles(asmRows)
    /\ asmOut = None /\ asmPermOut = None
    /\ PipeIdle /\ CoordsIdle /\ BedsIdle

Assemble ==
    /\ asmOut = None
    /\ asmOut' = Some(assemble(asmRows))
    /\ asmPermOut' = Some(assemble(asmPerm))
    /\ UNCHANGED <<asmRows, asmPerm, pipeVars, coordVars, bedsVars>>

SpecAssemble == InitAssemble /\ [][Assemble]_vars

(***************************************************************************)
(* Properties                                                              *)
(***************************************************************************)
Finished(t) == taskState[t] \in {"done", "yielded"}
HasCoords(rec) == rec.Latitude # None /\ rec.Longitude # None

\* C1: every record's Latitude and Longitude are both present or both
\* absent, after parse_list_tables and after enrichment, whatever the
\* listing row's coordinates (0.0 included) and the detail page's outcome.
C1_BothOrNeither ==
    \A r \in DOMAIN heap : (heap[r].Latitude = None) <=> (heap[r].Longitude = None)

\* C2: a record that enters enrichment with both coordinates leaves it with
\* the same two values, whatever the detail page reports.
C2_NeverOverwrites ==
    \A t \in Tasks :
        (Finished(t) /\ HasCoords(base_rows[taskRec[t]]))
            => /\ heap[taskRec[t]].Latitude = base_rows[taskRec[t]].Latitude
               /\ heap[taskRec[t]].Longitude = base_rows[taskRec[t]].Longitude

FetchFailed(t) == netAnswer[t] # None /\ _fetch(Val(netAnswer[t])) = None

\* C5: a failed detail fetch does not abort the run; the failing record ends
\* with Beds, Beds Raw and Beds Source URL absent and its listing fields
\* unchanged, and there is one output record per input record.
C5_FailedFetchIsolated ==
    exitCode = Some(EXIT_OK) =>
        /\ Len(out) = Len(base_rows)
        /\ \A t \in Tasks :
             FetchFailed(t) =>
                LET rec == heap[taskRec[t]]
                    old == base_rows[taskRec[t]]
                IN /\ rec.Beds = None /\ rec.BedsRaw = None /\ rec.BedsSourceURL = None
                   /\ rec.HealthAuthority = old.HealthAuthority
                   /\ rec.FacilityName = old.FacilityName
                   /\ rec.LocationCity = old.LocationCity
                   /\ rec.HospitalPageURL = old.HospitalPageURL
                   /\ rec.Latitude = old.Latitude
                   /\ rec.Longitude = old.Longitude

\* C3: the rows written hold no two equal (Facility Name, Location City)
\* pairs, and for every pair of the input the row kept is the first input
\* row with that pair, all its fields included.
C3_DedupKeepsFirst ==
    asmOut # None =>
        LET o == Val(asmOut)
            First(key) == CHOOSE i \in DOMAIN asmRows :
                              /\ DupKey(asmRows[i]) = key
                              /\ \A j \in 1..(i - 1) : DupKey(asmRows[j]) # key
        IN /\ \A i, j \in DOMAIN o : DupKey(o[i]) = DupKey(o[j]) => i = j
           /\ \A i \in DOMAIN asmRows :
                \E k \in DOMAIN o : o[k] = asmRows[First(DupKey(asmRows[i]))]
           /\ \A k \in DOMAIN o : \E i \in DOMAIN asmRows : o[k] = asmRows[i]

C3_Witness ==
    /\ asmOut # None
    /\ \E i, j \in DOMAIN asmRows :
         i < j /\ DupKey(asmRows[i]) = DupKey(asmRows[j]) /\ asmRows[i] # asmRows[j]

RowsSorted(o) == \A i, j \in DOMAIN o : i < j => ~SortKeyLess(o[j], o[i])
SameSortKey(a, b) ==
    a.HealthAuthority = b.HealthAuthority /\ a.FacilityName = b.FacilityName
\* No two different records share a (name, city) pair or a (section, name) pair.
NoConflicts(rows) ==
    \A i, j \in DOMAIN rows :
        (DupKey(rows[i]) = DupKey(rows[j]) \/ SameSortKey(rows[i], rows[j]))
            => rows[i] = rows[j]

\* C4 as stated: the rows written are sorted by (Health Authority, Facility
\* Name) and are the same for every permutation of the input.
C4_AnyPermutation ==
    asmOut # None =>
        /\ RowsSorted(Val(asmOut))
        /\ Val(asmOut) = Val(asmPermOut)

\* C4 amended: the rows written are sorted by (Health Authority, Facility
\* Name); they are the same for every permutation of the input when no two
\* different input records share a (name, city) or a (section, name) pair.
C4_SortedAndStableInputs ==
    asmOut # None =>
        /\ RowsSorted(Val(asmOut))
        /\ RowsSorted(Val(asmPermOut))
        /\ NoConflicts(asmRows) => Val(asmOut) = Val(asmPermOut)

C4_Witness ==
    /\ asmOut # None
    /\ Len(asmRows) >= 2
    /\ NoConflicts(asmRows)
    /\ asmPerm # asmRows
    /\ Val(asmOut) # asmRows
    /\ Val(asmOut) # asmPerm

\* C6: the run ends fatally in exactly two ways, with distinct non-zero
\* codes: the listing fetch failed (2), or the listing gave no record (3);
\* then no detail fetch was issued and nothing was written.  Every other
\* run writes the file once, after every task's result was collected, and
\* exits zero.
C6_ExitCodes ==
    /\ exitCode \in {None, Some(EXIT_OK), Some(EXIT_FETCH_FAILED), Some(EXIT_NO_ROWS)}
    /\ (pc = "exit") <=> (exitCode # None)
    /\ exitCode = Some(EXIT_FETCH_FAILED) =>
          list_resp = None /\ fetched = {} /\ written = 0 /\ csv = None
    /\ exitCode = Some(EXIT_NO_ROWS) =>
          list_resp # None /\ base_rows = << >> /\ fetched = {} /\ written = 0 /\ csv = None
    /\ exitCode = Some(EXIT_OK) =>
          /\ list_resp # None /\ base_rows # << >>
          /\ written = 1 /\ csv # None
          /\ \A t \in Tasks : taskState[t] = "yielded"
    /\ (pc = "exit" /\ list_resp = None) => exitCode = Some(EXIT_FETCH_FAILED)
    /\ (pc = "exit" /\ list_resp # None /\ base_rows = << >>) => exitCode = Some(EXIT_NO_ROWS)
    /\ pc \in {"start", "parse"} => fetched = {}
    /\ written <= 1
    /\ written = 1 => exitCode = Some(EXIT_OK)

\* C7: out holds the records in input order, whatever the pool size, the
\* interleaving of the steps and the order the tasks return in: the k-th
\* object appended is the k-th dict of rows, in its enriched form from the
\* moment it is appended, and when enrich_with_hospital_pages returns out
\* holds every record.  The function fails to return only when the pool
\* cannot be built or a task raised, and a task raises only in a
\* time.sleep that --delay makes raise; out is the in-order prefix then too.
C7_InputOrder ==
    /\ \A k \in DOMAIN out :
         /\ out[k] = k
         /\ heap[out[k]] = worker_update(base_rows[k], taskLocal[k])
    /\ (pc = "assemble" \/ exitCode = Some(EXIT_OK)) => Len(out) = Len(base_rows)
    /\ pc = "raising" => \E t \in Tasks : taskState[t] = "failed"
    /\ \A t \in Tasks :
         taskState[t] = "failed" =>
             /\ SleepOutcomes(delay) # {"returns"}
             /\ TruthyStr(base_rows[taskRec[t]].HospitalPageURL)

C7_Witness ==
    /\ exitCode = Some(EXIT_OK)
    /\ Len(out) >= 2
    /\ doneOrder[1] # 1
    /\ max_workers >= 2
    /\ TruthyFloat(Some(delay))

\* No dict is read or updated by two tasks, no two running tasks hold the
\* same dict, only the main thread appends to out, and a record without URL
\* causes no fetch.
RecordsDisjoint ==
    /\ \A r \in DOMAIN readBy : Cardinality(readBy[r] \cup writtenBy[r]) <= 1
    /\ \A t, u \in Running : t # u => taskRec[t] # taskRec[u]
    /\ appenders \subseteq {"main"}
    /\ \A r \in fetched : TruthyStr(base_rows[r].HospitalPageURL)

\* C10 as stated: no data race on records is reachable, and each input
\* record is read and updated by exactly one worker task: once enrichment
\* is over, every dict was read by one task and updated by that task.
C10_NoSharedRecord ==
    /\ RecordsDisjoint
    /\ pc \in {"assemble", "exit"} =>
          \A r \in DOMAIN readBy :
              \E t \in Tasks : readBy[r] = {t} /\ writtenBy[r] = {t}

\* What each strategy yields on the texts drawn, worked out by hand from
\* Python's re.sub, re.split, str.strip and float.
C8_GeoPair(node) ==
    IF node.geo = Some(T_Geo49)
    THEN Some(<<Some(Finite(FALSE, <<4, 9, 2>>, -1)), Some(Finite(TRUE, <<1, 2, 3, 1>>, -1))>>)
    ELSE IF node.geo = Some(T_GeoZeroComma)
    THEN Some(<<Some(Zero(FALSE)), Some(Finite(FALSE, <<7>>, 0))>>)
    ELSE IF node.geo = Some(T_GeoNan) THEN Some(<<Some(NaN), Some(NaN)>>)
    ELSE IF node.geo = Some(T_GeoExp)
    THEN Some(<<Some(Finite(FALSE, <<1>>, 1)), Some(Finite(FALSE, <<2>>, 1))>>)
    ELSE None
C8_LatLonPair(node) ==
    IF node.latitude = Some(T_Lat50) /\ node.longitude = Some(T_Lon120)
    THEN Some(<<Some(Finite(FALSE, <<5, 0, 5>>, -1)), Some(Finite(TRUE, <<1, 2, 0, 5>>, -1))>>)
    ELSE None
C8_MaplinkPair(node) ==
    IF node.maplink = Maplink(Some(T_MapLat), Some(T_MapLon))
    THEN Some(<<Some(Finite(FALSE, <<4, 8, 4>>, -1)), Some(Finite(TRUE, <<1, 2, 3, 3>>, -1))>>)
    ELSE None

\* C8: the strategies are tried in the order geotag, latitude/longitude
\* elements, map link, and the first one that succeeds gives the pair; a
\* strategy whose markup is there but does not parse falls through; when
\* all fail the result is (None, None).
C8_StrategyOrder ==
    coordResult # None =>
        Val(coordResult) =
            IF C8_GeoPair(coordNode) # None THEN Val(C8_GeoPair(coordNode))
            ELSE IF C8_LatLonPair(coordNode) # None THEN Val(C8_LatLonPair(coordNode))
            ELSE IF C8_MaplinkPair(coordNode) # None THEN Val(C8_MaplinkPair(coordNode))
            ELSE <<None, None>>

C8_Witness ==
    /\ coordResult # None
    /\ coordNode.geo = Some(T_Geo49)
    /\ coordNode.maplink = Maplink(Some(T_MapLat), Some(T_MapLon))
    /\ Val(coordResult) = <<Some(Finite(FALSE, <<4, 9, 2>>, -1)),
                         Some(Finite(TRUE, <<1, 2, 3, 1>>, -1))>>

\* The rows drawn whose label starts with "beds", and what their value cell
\* gives, worked out by hand from Python's re.sub, re.search and int:
\* "312 (acute)" and 312, "n/a" and no number, "1,2345 beds" and 1234, the
\* Arabic-Indic text unchanged and 312.
C9_LabelMatches(tr) ==
    /\ tr.td # None
    /\ tr.th \in {Some(T_Beds2020), Some(T_BedsUpper), Some(T_BedsLower), Some(T_BedsMixed),
                  Some(T_Beds)}
C9_CellGives(td) ==
    CASE td = T_312Acute -> <<Some(<<51, 49, 50, 32, 40, 97, 99, 117, 116, 101, 41>>),
            Some(312)>>
      [] td = T_NotAvailable -> <<Some(T_NotAvailable), None>>
      [] td = T_Comma -> <<Some(<<49, 44, 50, 51, 52, 53, 32, 98, 101, 100, 115>>), Some(1234)>>
      [] td = T_ArabicIndic -> <<Some(T_ArabicIndic), Some(312)>>

\* C9: only the first infobox row with a label cell and a value cell whose
\* label starts with "beds" (any case) is used: Beds Raw is its normalized
\* value text, Beds the first run of 1 to 4 digits of it once commas are
\* removed, absent when it has no digit; later matching rows are not used.
C9_FirstBedsRow ==
    bedsResult # None =>
        LET rows == IF bedsBox = None THEN << >> ELSE Val(bedsBox)
            M == {i \in DOMAIN rows : C9_LabelMatches(rows[i])}
        IN IF M = {} THEN Val(bedsResult) = <<None, None>>
           ELSE LET k == CHOOSE i \in M : \A j \in M : i <= j
                IN Val(bedsResult) = C9_CellGives(Val(rows[k].td))

C9_Witness ==
    /\ bedsResult # None
    /\ bedsBox # None
    /\ Len(Val(bedsBox)) >= 2
    /\ Val(bedsBox)[1] = InfoRow(Some(T_BedsUpper), Some(T_NotAvailable))
    /\ Val(bedsBox)[2] = InfoRow(Some(T_Beds2020), Some(T_312Acute))
    /\ Val(bedsResult) = <<Some(T_NotAvailable), None>>

=============================================================================
